---- MODULE Spec2Model ----
(***************************************************************************)
(* A model of har_analyzer.py: the HARAnalyzer session (load_har,          *)
(* extract_timings, calculate_statistics, get_slowest_requests,            *)
(* get_requests_by_status, print_summary, export_to_json) and main().      *)
(*                                                                         *)
(* JSON objects are functions from their keys to values, so that           *)
(* dict.get(key, default) is a test on DOMAIN.  Numbers are integers       *)
(* (milliseconds).  The values of the timings object carry a type tag,     *)
(* [num |-> n] or [null |-> TRUE], because max(0, value) needs a number.   *)
(* A fraction (mean, median, variance) is a record [num, den].             *)
(***************************************************************************)
EXTENDS Integers, Sequences, FiniteSets, TLC

VARIABLES
    argv,       \* sys.argv of the run
    file,       \* the input file: [state, doc]
    mpc,        \* main()'s position ("api": the session is driven by a caller)
    pc,         \* the session's position
    entries,    \* HARAnalyzer.entries: the sequence of TimingInfo records
    ret,        \* the value returned by the last call: [op, arg, value]
    console,    \* the lines printed so far, each with its stream
    outfile,    \* the export destination: [exists, chunks], chunks being what has reached the file
    outBefore,  \* what the destination held when the last export started
    pending,    \* the serialized chunks export_to_json has still to write
    exitCode    \* the process's return code once pc is "exited", "raised" or "killed"
                \* (negative: the number of the signal that ended it)

vars == <<argv, file, mpc, pc, entries, ret, console, outfile, outBefore, pending, exitCode>>

----------------------------------------------------------------------------
(* Bounds of the model *)

MaxEntries == 3
MaxN == 2
MaxOutput == 1

----------------------------------------------------------------------------
(* JSON values *)

N(n) == [num |-> n]
Null == [null |-> TRUE]
IsNumber(v) == "num" \in DOMAIN v
EmptyObj == <<>>

\* dict.get(key, default)
Get(obj, key, default) == IF key \in DOMAIN obj THEN obj[key] ELSE default

Without(obj, key) == [k \in DOMAIN obj \ {key} |-> obj[k]]
With(obj, key, v) == [k \in DOMAIN obj \cup {key} |-> IF k = key THEN v ELSE obj[k]]

Phases == <<"blocked", "dns", "connect", "send", "wait", "receive", "ssl">>
timing_phases == <<"total_time">> \o Phases

----------------------------------------------------------------------------
(* The inputs: entries of a HAR document *)

BaseTimings ==
    [blocked |-> N(1), dns |-> N(2), connect |-> N(3), send |-> N(1),
     wait |-> N(5), receive |-> N(4), ssl |-> N(-1)]
SparseTimings == [dns |-> N(-1), connect |-> N(0), wait |-> N(9), ssl |-> N(7)]
NullTimings == With(BaseTimings, "dns", Null)

BaseEntry ==
    [request |-> [url |-> "http://a/", method |-> "GET"],
     response |-> [status |-> 200],
     time |-> 50,
     timings |-> BaseTimings]

\* The base entry and every entry that differs from it in one field.
EntryPool ==
    << BaseEntry,
       Without(BaseEntry, "request"),
       Without(BaseEntry, "response"),
       With(BaseEntry, "response", [status |-> 404]),
       Without(BaseEntry, "time"),
       With(BaseEntry, "time", 150),
       Without(BaseEntry, "timings"),
       With(BaseEntry, "timings", SparseTimings),
       With(BaseEntry, "timings", NullTimings) >>

RECURSIVE SeqsUpTo(_)
SeqsUpTo(n) ==
    IF n = 0 THEN {<<>>}
    ELSE LET shorter == SeqsUpTo(n - 1)
         IN  shorter \cup {Append(s, EntryPool[i]) :
                               s \in {t \in shorter : Len(t) = n - 1},
                               i \in 1..Len(EntryPool)}

Documents ==
    {EmptyObj, [log |-> EmptyObj]} \cup {[log |-> [entries |-> es]] : es \in SeqsUpTo(MaxEntries)}

Files ==
    {[state |-> s, doc |-> EmptyObj] : s \in {"missing", "unreadable", "invalid_json"}}
    \cup {[state |-> "ok", doc |-> d] : d \in Documents}

----------------------------------------------------------------------------
(* extract_timings *)

Max(a, b) == IF b > a THEN b ELSE a

\* get_timing raises TypeError when the value is no number
TimingRaises(timings, key) == ~IsNumber(Get(timings, key, N(0)))

\* get_timing without the clamp
get_timing_unclamped(timings, key) == Get(timings, key, N(0)).num

get_timing(timings, key) == Max(0, Get(timings, key, N(0)).num)

EntryRaises(entry) ==
    \E i \in 1..Len(Phases) : TimingRaises(Get(entry, "timings", EmptyObj), Phases[i])

TimingInfo(entry) ==
    LET request == Get(entry, "request", EmptyObj)
        response == Get(entry, "response", EmptyObj)
        timings == Get(entry, "timings", EmptyObj)
    IN  [url |-> Get(request, "url", "unknown"),
         method |-> Get(request, "method", "unknown"),
         status |-> Get(response, "status", 0),
         total_time |-> Get(entry, "time", 0),
         blocked |-> get_timing(timings, "blocked"),
         dns |-> get_timing(timings, "dns"),
         connect |-> get_timing(timings, "connect"),
         send |-> get_timing(timings, "send"),
         wait |-> get_timing(timings, "wait"),
         receive |-> get_timing(timings, "receive"),
         ssl |-> get_timing(timings, "ssl")]

\* ExtractLoop with self.entries.insert(0, timing_info) for the append
RECURSIVE ExtractLoopFront(_, _)
ExtractLoopFront(es, acc) ==
    IF es = <<>> THEN [records |-> acc, raised |-> FALSE]
    ELSE IF EntryRaises(Head(es)) THEN [records |-> acc, raised |-> TRUE]
    ELSE ExtractLoopFront(Tail(es), <<TimingInfo(Head(es))>> \o acc)

\* The loop of extract_timings over har_data['log']['entries'], from self.entries = acc:
\* the records appended until the loop ends or an entry raises.
RECURSIVE ExtractLoop(_, _)
ExtractLoop(es, acc) ==
    IF es = <<>> THEN [records |-> acc, raised |-> FALSE]
    ELSE IF EntryRaises(Head(es)) THEN [records |-> acc, raised |-> TRUE]
    ELSE ExtractLoop(Tail(es), Append(acc, TimingInfo(Head(es))))

StructurallyValid(doc) == "log" \in DOMAIN doc /\ "entries" \in DOMAIN doc["log"]

----------------------------------------------------------------------------
(* calculate_statistics *)

Frac(n, d) == [num |-> n, den |-> d]
Zero == Frac(0, 1)

\* Values with >= 0 for the > 0
RECURSIVE ValuesNonNegative(_, _)
ValuesNonNegative(es, phase) ==
    IF es = <<>> THEN <<>>
    ELSE IF Head(es)[phase] >= 0
         THEN <<Head(es)[phase]>> \o ValuesNonNegative(Tail(es), phase)
    ELSE ValuesNonNegative(Tail(es), phase)

\* [getattr(entry, phase) for entry in self.entries if getattr(entry, phase) > 0]
RECURSIVE Values(_, _)
Values(es, phase) ==
    IF es = <<>> THEN <<>>
    ELSE IF Head(es)[phase] > 0 THEN <<Head(es)[phase]>> \o Values(Tail(es), phase)
    ELSE Values(Tail(es), phase)

RECURSIVE Sum(_)
Sum(vs) == IF vs = <<>> THEN 0 ELSE Head(vs) + Sum(Tail(vs))

RECURSIVE SumSq(_)
SumSq(vs) == IF vs = <<>> THEN 0 ELSE Head(vs) * Head(vs) + SumSq(Tail(vs))

RECURSIVE MinOf(_)
MinOf(vs) ==
    IF Len(vs) = 1 THEN vs[1]
    ELSE LET m == MinOf(Tail(vs)) IN IF m < Head(vs) THEN m ELSE Head(vs)

RECURSIVE MaxOf(_)
MaxOf(vs) ==
    IF Len(vs) = 1 THEN vs[1]
    ELSE LET m == MaxOf(Tail(vs)) IN IF m > Head(vs) THEN m ELSE Head(vs)

\* sorted(values): ascending
RECURSIVE InsertAsc(_, _)
InsertAsc(sorted, v) ==
    IF sorted = <<>> THEN <<v>>
    ELSE IF Head(sorted) <= v THEN <<Head(sorted)>> \o InsertAsc(Tail(sorted), v)
    ELSE <<v>> \o sorted

RECURSIVE SortedAsc(_)
SortedAsc(vs) ==
    IF vs = <<>> THEN <<>> ELSE InsertAsc(SortedAsc(SubSeq(vs, 1, Len(vs) - 1)), vs[Len(vs)])

\* statistics.median: the middle value, or the mean of the two middle values
median(vs) ==
    LET data == SortedAsc(vs)
        n == Len(data)
    IN  IF n % 2 = 1 THEN Frac(data[(n \div 2) + 1], 1)
        ELSE Frac(data[n \div 2] + data[(n \div 2) + 1], 2)

mean(vs) == Frac(Sum(vs), Len(vs))

\* statistics.stdev is the square root of the sample variance,
\* sum((x - mean)^2) / (n - 1) = (n * sum(x^2) - sum(x)^2) / (n * (n - 1));
\* the model holds the variance, of which std_dev is the root.
variance(vs) ==
    LET n == Len(vs) IN Frac(n * SumSq(vs) - Sum(vs) * Sum(vs), n * (n - 1))

PhaseStats(es, phase) ==
    LET values == Values(es, phase)
    IN  IF values # <<>>
        THEN [count |-> Len(values),
              total |-> Sum(values),
              average |-> mean(values),
              median |-> median(values),
              min |-> MinOf(values),
              max |-> MaxOf(values),
              std_dev_sq |-> IF Len(values) > 1 THEN variance(values) ELSE Zero]
        ELSE [count |-> 0, total |-> 0, average |-> Zero, median |-> Zero,
              min |-> 0, max |-> 0, std_dev_sq |-> Zero]

\* calculate_statistics that leaves out a quantity with no value > 0
calculate_statistics_sparse(es) ==
    IF es = <<>> THEN EmptyObj
    ELSE [phase \in {timing_phases[i] : i \in 1..Len(timing_phases)} \cap
                    {q \in {timing_phases[i] : i \in 1..Len(timing_phases)} :
                        Values(es, q) # <<>>} |-> PhaseStats(es, phase)]

calculate_statistics(es) ==
    IF es = <<>> THEN EmptyObj
    ELSE [phase \in {timing_phases[i] : i \in 1..Len(timing_phases)} |-> PhaseStats(es, phase)]

----------------------------------------------------------------------------
(* get_slowest_requests *)

\* InsertDesc with > for the >=: a record goes before the records of equal total_time
RECURSIVE InsertDescUnstable(_, _)
InsertDescUnstable(sorted, x) ==
    IF sorted = <<>> THEN <<x>>
    ELSE IF Head(sorted).total_time > x.total_time
         THEN <<Head(sorted)>> \o InsertDescUnstable(Tail(sorted), x)
    ELSE <<x>> \o sorted

\* sorted(..., reverse=True) is stable: a record goes behind every record whose
\* total_time is greater or equal.
RECURSIVE InsertDesc(_, _)
InsertDesc(sorted, x) ==
    IF sorted = <<>> THEN <<x>>
    ELSE IF Head(sorted).total_time >= x.total_time
         THEN <<Head(sorted)>> \o InsertDesc(Tail(sorted), x)
    ELSE <<x>> \o sorted

RECURSIVE SortedDesc(_)
SortedDesc(es) ==
    IF es = <<>> THEN <<>> ELSE InsertDesc(SortedDesc(SubSeq(es, 1, Len(es) - 1)), es[Len(es)])

\* seq[:n]
Slice(seq, n) ==
    IF n >= 0 THEN SubSeq(seq, 1, IF n < Len(seq) THEN n ELSE Len(seq))
    ELSE SubSeq(seq, 1, Len(seq) + n)

get_slowest_requests(es, n) == Slice(SortedDesc(es), n)

----------------------------------------------------------------------------
(* get_requests_by_status *)

\* A dict is the sequence of its items [key, value] in insertion order.  A key
\* is a Python value with its type: [int |-> 200] or [str |-> "200"].
PyInt(n) == [int |-> n]
PyStr(s) == [str |-> s]

HasKey(dict, k) == \E i \in 1..Len(dict) : dict[i].key = k

\* status_counts[entry.status] = status_counts.get(entry.status, 0) + 1
Increment(dict, k) ==
    IF HasKey(dict, k)
    THEN [i \in 1..Len(dict) |->
             IF dict[i].key = k THEN [key |-> k, value |-> dict[i].value + 1] ELSE dict[i]]
    ELSE Append(dict, [key |-> k, value |-> 1])

RECURSIVE CountStatuses(_, _)
CountStatuses(es, counts) ==
    IF es = <<>> THEN counts
    ELSE CountStatuses(Tail(es), Increment(counts, PyInt(Head(es).status)))

\* sorted(status_counts.items()): ascending by key (the keys are distinct)
RECURSIVE InsertItem(_, _)
InsertItem(sorted, item) ==
    IF sorted = <<>> THEN <<item>>
    ELSE IF Head(sorted).key.int <= item.key.int
         THEN <<Head(sorted)>> \o InsertItem(Tail(sorted), item)
    ELSE <<item>> \o sorted

RECURSIVE SortedItems(_)
SortedItems(items) ==
    IF items = <<>> THEN <<>>
    ELSE InsertItem(SortedItems(SubSeq(items, 1, Len(items) - 1)), items[Len(items)])

\* get_requests_by_status that returns status_counts as it was filled
get_requests_by_status_unsorted(es) == CountStatuses(es, <<>>)

get_requests_by_status(es) == SortedItems(CountStatuses(es, <<>>))

----------------------------------------------------------------------------
(* export_to_json: the document and its JSON text *)

Digits == <<"0", "1", "2", "3", "4", "5", "6", "7", "8", "9">>

\* str(n), as json.dump writes an int key
RECURSIVE IntToStr(_)
IntToStr(n) ==
    IF n < 0 THEN "-" \o IntToStr(0 - n)
    ELSE IF n < 10 THEN Digits[n + 1]
    ELSE IntToStr(n \div 10) \o Digits[(n % 10) + 1]

SlowestItem(entry) ==
    [url |-> entry.url, method |-> entry.method, status |-> entry.status,
     total_time_ms |-> entry.total_time]

\* output_data with self.entries[:10] for the slowest requests
output_data_unsorted(es, path) ==
    LET stats == calculate_statistics(es)
        slowest == Slice(es, 10)
        status_counts == get_requests_by_status(es)
    IN  [summary |-> [source_file |-> path,
                      total_requests |-> Len(es),
                      status_distribution |-> status_counts],
         timing_statistics |-> stats,
         slowest_requests |-> [i \in 1..Len(slowest) |-> SlowestItem(slowest[i])]]

output_data(es, path) ==
    LET stats == calculate_statistics(es)
        slowest == get_slowest_requests(es, 10)
        status_counts == get_requests_by_status(es)
    IN  [summary |-> [source_file |-> path,
                      total_requests |-> Len(es),
                      status_distribution |-> status_counts],
         timing_statistics |-> stats,
         slowest_requests |-> [i \in 1..Len(slowest) |-> SlowestItem(slowest[i])]]

\* A JSON object's keys are strings: json.dump writes an int key as str(key).
DumpKey(k) == IF "int" \in DOMAIN k THEN PyStr(IntToStr(k.int)) ELSE k

DumpDict(dict) == [i \in 1..Len(dict) |-> [key |-> DumpKey(dict[i].key), value |-> dict[i].value]]

\* The text json.dump writes, as the chunks of its three top-level members.
JsonChunks(data) ==
    << [key |-> "summary",
        value |-> [data.summary EXCEPT !.status_distribution = DumpDict(@)]],
       [key |-> "timing_statistics", value |-> data.timing_statistics],
       [key |-> "slowest_requests", value |-> data.slowest_requests] >>

\* json.load of a file: the document, when the text is complete.
Members == <<"summary", "timing_statistics", "slowest_requests">>
Parseable(f) == f.exists /\ Len(f.chunks) = Len(Members)
JsonLoad(f) ==
    [summary |-> f.chunks[1].value,
     timing_statistics |-> f.chunks[2].value,
     slowest_requests |-> f.chunks[3].value]

----------------------------------------------------------------------------
(* print_summary: the lines of the report *)

Line(kind, data) == [stream |-> "stdout", kind |-> kind, data |-> data]
Traceback == [stream |-> "stderr", kind |-> "traceback", data |-> <<>>]

DisplayUrl(url) == IF Len(url) <= 60 THEN url ELSE SubSeq(url, 1, 57) \o "..."

ReportLines(es, path) ==
    LET status_counts == get_requests_by_status(es)
        stats == calculate_statistics(es)
        slowest == get_slowest_requests(es, 10)
        shown == SelectSeq(timing_phases, LAMBDA phase : phase \in DOMAIN stats)
    IN  <<Line("report_header", <<path, Len(es)>>)>>
        \o [i \in 1..Len(status_counts) |->
               Line("report_status", <<status_counts[i].key.int, status_counts[i].value>>)]
        \o [i \in 1..Len(shown) |->
               Line("report_phase",
                    <<shown[i], stats[shown[i]].count, stats[shown[i]].average,
                      stats[shown[i]].median, stats[shown[i]].min, stats[shown[i]].max>>)]
        \o [i \in 1..Len(slowest) |->
               Line("report_slowest",
                    <<i, slowest[i].status, slowest[i].total_time, slowest[i].method,
                      DisplayUrl(slowest[i].url)>>)]

IsReportLine(l) ==
    l.kind \in {"report_header", "report_status", "report_phase", "report_slowest"}

----------------------------------------------------------------------------
(* The session: HARAnalyzer's methods as steps *)

HarPath == "capture.har"
OutPath == "out.json"
NoFile == [exists |-> FALSE, chunks |-> <<>>]
\* a destination that holds something else before the export
OldFile == [exists |-> TRUE, chunks |-> <<[key |-> "OLD", value |-> <<>>]>>]
\* what ends export_to_json after open(): a failed write or close, or a signal
FailCauses == {"OSError", "SIGINT", "SIGTERM"}
Returned(op, arg, value) == [op |-> op, arg |-> arg, value |-> value]

\* ExitWith with sys.exit() for the sys.exit(1): exit status 0
ExitWithStatus0(kind) ==
    /\ console' = Append(console, Line(kind, <<>>))
    /\ pc' = "exited"
    /\ exitCode' = 0

\* sys.exit(1) after print(message)
ExitWith(kind) ==
    /\ console' = Append(console, Line(kind, <<>>))
    /\ pc' = "exited"
    /\ exitCode' = 1

\* an exception nothing catches: the traceback, and exit status 1
Raise ==
    /\ console' = Append(console, Traceback)
    /\ pc' = "raised"
    /\ exitCode' = 1

\* extract_timings, with its call of load_har
ExtractTimingsBody ==
    /\ pc = "constructed"
    /\ ret' = Returned("extract_timings", 0, <<>>)
    /\ UNCHANGED <<argv, file, outfile, outBefore, pending>>
    /\ CASE file.state = "missing" ->
                ExitWith("error_not_found") /\ UNCHANGED entries
         [] file.state = "unreadable" ->
                Raise /\ UNCHANGED entries
         [] file.state = "invalid_json" ->
                ExitWith("error_invalid_json") /\ UNCHANGED entries
         [] file.state = "ok" /\ ~StructurallyValid(file.doc) ->
                ExitWith("error_invalid_format") /\ UNCHANGED entries
         [] OTHER ->
                LET r == ExtractLoop(file.doc["log"]["entries"], entries)
                IN  /\ entries' = r.records
                    /\ IF r.raised THEN Raise
                       ELSE pc' = "ready" /\ UNCHANGED <<console, exitCode>>

CalculateStatisticsBody ==
    /\ pc = "ready"
    /\ ret' = Returned("calculate_statistics", 0, calculate_statistics(entries))
    /\ UNCHANGED <<argv, file, pc, entries, console, outfile, outBefore, pending, exitCode>>

GetSlowestRequestsBody(n) ==
    /\ pc = "ready"
    /\ ret' = Returned("get_slowest_requests", n, get_slowest_requests(entries, n))
    /\ UNCHANGED <<argv, file, pc, entries, console, outfile, outBefore, pending, exitCode>>

GetRequestsByStatusBody ==
    /\ pc = "ready"
    /\ ret' = Returned("get_requests_by_status", 0, get_requests_by_status(entries))
    /\ UNCHANGED <<argv, file, pc, entries, console, outfile, outBefore, pending, exitCode>>

PrintSummaryBody ==
    /\ pc = "ready"
    /\ console' = console \o ReportLines(entries, HarPath)
    /\ ret' = Returned("print_summary", 0, <<>>)
    /\ UNCHANGED <<argv, file, pc, entries, outfile, outBefore, pending, exitCode>>

\* export_to_json up to open(output_file, 'w'): it creates or truncates the file,
\* or it raises OSError (the destination cannot be opened for writing) and
\* leaves the destination as it was
ExportOpenBody ==
    /\ pc = "ready"
    /\ outBefore' = outfile
    /\ ret' = Returned("export_to_json", 0, <<>>)
    /\ UNCHANGED <<argv, file, entries>>
    /\ \/ /\ outfile' = [exists |-> TRUE, chunks |-> <<>>]
          /\ pending' = JsonChunks(output_data(entries, HarPath))
          /\ pc' = "writing"
          /\ UNCHANGED <<console, exitCode>>
       \/ /\ Raise
          /\ UNCHANGED <<outfile, pending>>

\* json.dump writes the next chunk
ExportWriteBody ==
    /\ pc = "writing"
    /\ pending # <<>>
    /\ outfile' = [outfile EXCEPT !.chunks = Append(@, Head(pending))]
    /\ pending' = Tail(pending)
    /\ UNCHANGED <<argv, file, pc, entries, ret, console, outBefore, exitCode>>

\* What of the console is left when the process is ended at once: stdout is
\* flushed when the interpreter shuts down, so under block buffering (stdout a
\* pipe or a file) the lines printed are lost, and with stdout unbuffered or a
\* terminal they are kept.  stderr is not buffered.
LeftOnConsole ==
    {console, SelectSeq(console, LAMBDA l : l.stream # "stdout")}

\* export_to_json is ended after open() and before the confirmation is
\* printed: during json.dump, after its last write, or at the close.  The
\* destination stays as it is, complete when every chunk has reached it.
\* OSError (a write or the close fails) is an exception nothing catches.
\* SIGINT raises KeyboardInterrupt: the traceback is printed and the process
\* ends by the signal (return code -2).  SIGTERM ends the process at once,
\* with no traceback (return code -15) and stdout not flushed.
ExportFailBody(cause) ==
    /\ pc = "writing"
    /\ pending' = <<>>
    /\ UNCHANGED <<argv, file, entries, ret, outfile, outBefore>>
    /\ CASE cause = "OSError" -> Raise
         [] cause = "SIGINT" ->
                /\ console' = Append(console, Traceback)
                /\ pc' = "killed"
                /\ exitCode' = 0 - 2
         [] cause = "SIGTERM" ->
                /\ pc' = "killed"
                /\ exitCode' = 0 - 15
                /\ console' \in LeftOnConsole

\* the with block ends, and the confirmation is printed
ExportCloseBody ==
    /\ pc = "writing"
    /\ pending = <<>>
    /\ console' = Append(console, Line("exported", <<OutPath>>))
    /\ pc' = "ready"
    /\ UNCHANGED <<argv, file, entries, ret, outfile, outBefore, pending, exitCode>>

----------------------------------------------------------------------------
(* Spec: one session, its methods called in any order after extract_timings *)

NRange == (0 - 1)..MaxN

\* the blocks of output (a report, an export's confirmation) printed so far
Blocks == Cardinality({i \in 1..Len(console) : console[i].kind \in {"report_header", "exported"}})

Init ==
    /\ argv = <<"har_analyzer.py", HarPath>>
    /\ file \in Files
    /\ mpc = "api"
    /\ pc = "constructed"
    /\ entries = <<>>
    /\ ret = Returned("__init__", 0, <<>>)
    /\ console = <<>>
    /\ outfile = NoFile
    /\ outBefore = NoFile
    /\ pending = <<>>
    /\ exitCode = 0

ExtractTimings == ExtractTimingsBody /\ UNCHANGED mpc
CalculateStatistics == CalculateStatisticsBody /\ UNCHANGED mpc
GetSlowestRequests == \E n \in NRange : GetSlowestRequestsBody(n) /\ UNCHANGED mpc
GetRequestsByStatus == GetRequestsByStatusBody /\ UNCHANGED mpc
PrintSummary == Blocks < MaxOutput /\ PrintSummaryBody /\ UNCHANGED mpc
ExportOpen == Blocks < MaxOutput /\ ExportOpenBody /\ UNCHANGED mpc
ExportWrite == ExportWriteBody /\ UNCHANGED mpc
ExportFail == \E cause \in FailCauses : ExportFailBody(cause) /\ UNCHANGED mpc
ExportClose == ExportCloseBody /\ UNCHANGED mpc

Next ==
    \/ ExtractTimings
    \/ CalculateStatistics
    \/ GetSlowestRequests
    \/ GetRequestsByStatus
    \/ PrintSummary
    \/ ExportOpen
    \/ ExportWrite
    \/ ExportFail
    \/ ExportClose

Spec == Init /\ [][Next]_vars

----------------------------------------------------------------------------
(* MainSpec: a run of main() *)

Argvs ==
    { <<"har_analyzer.py">>,
      <<"har_analyzer.py", HarPath>>,
      <<"har_analyzer.py", HarPath, "--export">>,
      <<"har_analyzer.py", HarPath, "--export", OutPath>>,
      <<"har_analyzer.py", HarPath, "--json", OutPath>> }

\* export_file of main: sys.argv[3] when sys.argv[2] is '--export', else None ("")
export_file(args) == IF Len(args) >= 4 /\ args[3] = "--export" THEN args[4] ELSE ""

MainInit ==
    /\ argv \in Argvs
    /\ file \in Files
    /\ mpc = "start"
    /\ pc = "main"
    /\ entries = <<>>
    /\ ret = Returned("main", 0, <<>>)
    /\ console = <<>>
    /\ outfile \in {NoFile, OldFile}
    /\ outBefore = outfile
    /\ pending = <<>>
    /\ exitCode = 0

\* the usage check, then HARAnalyzer(har_file)
MainArgs ==
    /\ mpc = "start"
    /\ UNCHANGED <<argv, file, entries, ret, outfile, outBefore, pending>>
    /\ IF Len(argv) < 2
       THEN ExitWith("usage") /\ mpc' = "done"
       ELSE pc' = "constructed" /\ mpc' = "extract" /\ UNCHANGED <<console, exitCode>>

MainExtract ==
    /\ mpc = "extract"
    /\ ExtractTimingsBody
    /\ mpc' = IF pc' = "ready" THEN "print" ELSE "done"

MainPrint ==
    /\ mpc = "print"
    /\ PrintSummaryBody
    /\ mpc' = "export"

MainExportOpen ==
    /\ mpc = "export"
    /\ export_file(argv) # ""
    /\ ExportOpenBody
    /\ mpc' = IF pc' = "writing" THEN "export" ELSE "done"

MainExportWrite == mpc = "export" /\ ExportWriteBody /\ UNCHANGED mpc

MainExportFail == \E cause \in FailCauses : mpc = "export" /\ ExportFailBody(cause) /\ mpc' = "done"

MainExportClose == mpc = "export" /\ ExportCloseBody /\ mpc' = "return"

\* main returns: exit status 0
MainReturn ==
    /\ \/ mpc = "return"
       \/ mpc = "export" /\ pc = "ready" /\ export_file(argv) = ""
    /\ mpc' = "done"
    /\ pc' = "exited"
    /\ exitCode' = 0
    /\ UNCHANGED <<argv, file, entries, ret, console, outfile, outBefore, pending>>

MainNext ==
    \/ MainArgs
    \/ MainExtract
    \/ MainPrint
    \/ MainExportOpen
    \/ MainExportWrite
    \/ MainExportFail
    \/ MainExportClose
    \/ MainReturn

MainSpec == MainInit /\ [][MainNext]_vars

----------------------------------------------------------------------------
(* Definitions the properties are stated with *)

HasEntries == file.state = "ok" /\ StructurallyValid(file.doc)
DocEntries == file.doc["log"]["entries"]

\* extract_timings has returned (the states in which the other methods run)
Extracted ==
    \/ pc \in {"ready", "writing"}
    \/ pc \in {"raised", "killed"} /\ ret.op = "export_to_json"
    \/ pc = "exited" /\ exitCode = 0

Qualifying(es, q) == {i \in 1..Len(es) : es[i][q] > 0}

RECURSIVE SumOver(_, _, _)
SumOver(es, q, idx) ==
    IF idx = {} THEN 0
    ELSE LET i == CHOOSE j \in idx : TRUE IN es[i][q] + SumOver(es, q, idx \ {i})

\* the value of rank r (1 = least) among the values of q at the indices idx
Ranked(es, q, idx, r) ==
    CHOOSE v \in {es[i][q] : i \in idx} :
        /\ Cardinality({i \in idx : es[i][q] < v}) < r
        /\ Cardinality({i \in idx : es[i][q] <= v}) >= r

FracIs(f, n, d) == f.den # 0 /\ f.num * d = n * f.den

IndexPerms(n) == {p \in [1..n -> 1..n] : \A i, j \in 1..n : i # j => p[i] # p[j]}

\* the order of the indices by total_time descending, ties in extraction order
StableOrder(es) ==
    CHOOSE p \in IndexPerms(Len(es)) :
        \A i, j \in 1..Len(es) :
            i < j => \/ es[p[i]].total_time > es[p[j]].total_time
                     \/ es[p[i]].total_time = es[p[j]].total_time /\ p[i] < p[j]

FullOrdering(es) == LET p == StableOrder(es) IN [k \in 1..Len(es) |-> es[p[k]]]

IsPrefix(s, t) == Len(s) <= Len(t) /\ s = SubSeq(t, 1, Len(s))

Least(a, b) == IF a < b THEN a ELSE b

\* int(s) of a decimal string
RECURSIVE StrToInt(_)
StrToInt(s) ==
    IF Len(s) = 1 THEN (CHOOSE d \in 0..9 : Digits[d + 1] = s)
    ELSE 10 * StrToInt(SubSeq(s, 1, Len(s) - 1))
         + (CHOOSE d \in 0..9 : Digits[d + 1] = SubSeq(s, Len(s), Len(s)))

----------------------------------------------------------------------------
(* The properties *)

\* C1: once extract_timings has returned, self.entries holds one record per
\* entry of log.entries, in entry order, and every later state (whatever
\* calculate_statistics, get_slowest_requests, get_requests_by_status,
\* print_summary and export_to_json calls were made) holds the same records.
C1_RecordsFixed ==
    (HasEntries /\ Extracted) =>
        /\ Len(entries) = Len(DocEntries)
        /\ \A i \in 1..Len(entries) : entries[i] = TimingInfo(DocEntries[i])

\* C1 witness: three records, not in descending order of total_time, after a
\* complete export and a later get_slowest_requests call.
C1_Witness ==
    /\ pc = "ready"
    /\ Len(entries) = 3
    /\ SortedDesc(entries) # entries
    /\ Parseable(outfile)
    /\ \E i \in 1..Len(console) : console[i].kind = "exported"
    /\ ret.op = "get_slowest_requests"

SourcePhase(src, phase) ==
    LET timings == Get(src, "timings", EmptyObj)
    IN  IF phase \in DOMAIN timings THEN timings[phase].num ELSE 0

\* C2: every phase of every extracted record is max(0, source value), an absent
\* field read as 0: it is >= 0, a source value of -1 is stored as 0, and an
\* entry with no timings object has all seven phases 0 and its total time is
\* the entry's time field (0 if absent).
C2_PhasesClamped ==
    \A i \in 1..Len(entries) :
        LET src == DocEntries[i] IN
        /\ \A k \in 1..Len(Phases) :
              LET v == SourcePhase(src, Phases[k])
                  stored == entries[i][Phases[k]]
              IN  /\ stored >= 0
                  /\ stored = (IF v > 0 THEN v ELSE 0)
                  /\ (v = 0 - 1) => stored = 0
        /\ "timings" \notin DOMAIN src =>
              /\ \A k \in 1..Len(Phases) : entries[i][Phases[k]] = 0
              /\ entries[i].total_time = (IF "time" \in DOMAIN src THEN src["time"] ELSE 0)

\* C2 witness: extracted records of an entry with ssl = -1 and a positive dns,
\* of an entry whose timings object lacks a phase, and of an entry with no
\* timings object.
C2_Witness ==
    /\ pc = "ready"
    /\ \E i, j, k \in 1..Len(entries) :
          /\ "timings" \in DOMAIN DocEntries[i]
          /\ SourcePhase(DocEntries[i], "ssl") = 0 - 1
          /\ entries[i].ssl = 0
          /\ entries[i].dns = 2
          /\ "timings" \in DOMAIN DocEntries[j]
          /\ "blocked" \notin DOMAIN DocEntries[j]["timings"]
          /\ entries[j].blocked = 0
          /\ "timings" \notin DOMAIN DocEntries[k]
          /\ entries[k].total_time = 50

\* C3: for a non-empty record set and each of the eight quantities q,
\* calculate_statistics reports the statistics of exactly the records whose q
\* is > 0: their number, their sum, their least and greatest value and their
\* median (the mean of the two middle values for an even number).
C3_StatsOverPositive ==
    (ret.op = "calculate_statistics" /\ entries # <<>>) =>
        \A k \in 1..Len(timing_phases) :
            LET q == timing_phases[k]
                idx == Qualifying(entries, q)
                n == Cardinality(idx)
                s == ret.value[q]
            IN  /\ s.count = n
                /\ s.total = SumOver(entries, q, idx)
                /\ n > 0 =>
                      /\ \E i \in idx : entries[i][q] = s.min
                      /\ \A i \in idx : entries[i][q] >= s.min
                      /\ \E i \in idx : entries[i][q] = s.max
                      /\ \A i \in idx : entries[i][q] <= s.max
                      /\ IF n % 2 = 1
                         THEN FracIs(s.median, Ranked(entries, q, idx, (n + 1) \div 2), 1)
                         ELSE FracIs(s.median,
                                     Ranked(entries, q, idx, n \div 2)
                                         + Ranked(entries, q, idx, (n \div 2) + 1), 2)

\* C3 witness: statistics of three records of which two have a total time > 0
\* (an even count, distinct values), and one record counted for dns and not
\* for ssl.
C3_Witness ==
    /\ ret.op = "calculate_statistics"
    /\ Len(entries) = 3
    /\ ret.value["total_time"].count = 2
    /\ ret.value["total_time"].min < ret.value["total_time"].max
    /\ ret.value["total_time"].median = Frac(200, 2)
    /\ \E i \in 1..Len(entries) : entries[i].dns > 0 /\ entries[i].ssl = 0
    /\ ret.value["dns"].count > ret.value["ssl"].count
    /\ ret.value["ssl"].count > 0

\* C4: calculate_statistics returns the empty mapping exactly when there is no
\* record; otherwise it has an entry for each of the eight quantities, a
\* quantity with no value > 0 has count, total, average, median, min, max and
\* std_dev all 0, and a quantity with one value > 0 has std_dev 0.
C4_NeverSparse ==
    ret.op = "calculate_statistics" =>
        IF entries = <<>> THEN ret.value = EmptyObj
        ELSE /\ ret.value # EmptyObj
             /\ DOMAIN ret.value = {timing_phases[k] : k \in 1..Len(timing_phases)}
             /\ Cardinality(DOMAIN ret.value) = 8
             /\ \A q \in DOMAIN ret.value :
                   LET n == Cardinality(Qualifying(entries, q))
                       s == ret.value[q]
                   IN  /\ n = 0 =>
                             /\ s.count = 0 /\ s.total = 0 /\ s.min = 0 /\ s.max = 0
                             /\ FracIs(s.average, 0, 1)
                             /\ FracIs(s.median, 0, 1)
                             /\ FracIs(s.std_dev_sq, 0, 1)
                       /\ n = 1 => FracIs(s.std_dev_sq, 0, 1)

\* C4 witness: statistics of a non-empty record set with a quantity that has
\* no value > 0, one that has exactly one, and one that has several.
C4_Witness ==
    /\ ret.op = "calculate_statistics"
    /\ entries # <<>>
    /\ \E q \in DOMAIN ret.value : Cardinality(Qualifying(entries, q)) = 0
    /\ \E q \in DOMAIN ret.value :
          Cardinality(Qualifying(entries, q)) = 1 /\ ret.value[q].count = 1
    /\ \E q \in DOMAIN ret.value :
          Cardinality(Qualifying(entries, q)) > 1 /\ ret.value[q].count > 1

SortedByTotalTime(rs) ==
    \A i, j \in 1..Len(rs) : i < j => rs[i].total_time >= rs[j].total_time

\* C5 as claimed: for every N, get_slowest_requests(N) has length
\* min(N, number of records), is sorted by total time descending with ties in
\* extraction order, and is a prefix of the full stable descending ordering.
C5_Original ==
    ret.op = "get_slowest_requests" =>
        /\ Len(ret.value) = Least(ret.arg, Len(entries))
        /\ SortedByTotalTime(ret.value)
        /\ IsPrefix(ret.value, FullOrdering(entries))

\* C5 amended: for every N, get_slowest_requests(N) is sorted by total time
\* descending with ties in extraction order and is a prefix of the full stable
\* descending ordering; its length is min(N, number of records) for N >= 0,
\* and max(0, number of records + N) for N < 0.
C5_SlowestPrefix ==
    ret.op = "get_slowest_requests" =>
        /\ ret.arg >= 0 => Len(ret.value) = Least(ret.arg, Len(entries))
        /\ ret.arg < 0 => Len(ret.value) = Max(0, Len(entries) + ret.arg)
        /\ SortedByTotalTime(ret.value)
        /\ IsPrefix(ret.value, FullOrdering(entries))

\* C5 witness: the two slowest of three records, two of which have the same
\* total time and differ, the result not being the first two records.
C5_Witness ==
    /\ ret.op = "get_slowest_requests"
    /\ ret.arg = 2
    /\ Len(entries) = 3
    /\ Len(ret.value) = 2
    /\ ret.value # SubSeq(entries, 1, 2)
    /\ ret.value[1].total_time = ret.value[2].total_time
    /\ ret.value[1] # ret.value[2]

RECURSIVE SumValues(_)
SumValues(dict) == IF dict = <<>> THEN 0 ELSE Head(dict).value + SumValues(Tail(dict))

\* C6: get_requests_by_status returns a mapping whose keys are exactly the
\* distinct status values of the records (0 for an absent status), in
\* ascending order, each with the number of records of that status; the
\* counts sum to the number of records.
C6_StatusHistogram ==
    ret.op = "get_requests_by_status" =>
        LET h == ret.value IN
        /\ \A i \in 1..Len(h) : DOMAIN h[i].key = {"int"}
        /\ {h[i].key.int : i \in 1..Len(h)} = {entries[k].status : k \in 1..Len(entries)}
        /\ \A i, j \in 1..Len(h) : i < j => h[i].key.int < h[j].key.int
        /\ \A i \in 1..Len(h) :
              h[i].value = Cardinality({k \in 1..Len(entries) : entries[k].status = h[i].key.int})
        /\ SumValues(h) = Len(entries)

\* C6 witness: the histogram of three records, two of them with an absent
\* status (0), whose statuses were met in another order than ascending.
C6_Witness ==
    /\ ret.op = "get_requests_by_status"
    /\ Len(entries) = 3
    /\ Len(ret.value) = 2
    /\ ret.value[1] = [key |-> PyInt(0), value |-> 2]
    /\ CountStatuses(entries, <<>>) # ret.value

InMemorySlowest == LET slowest == get_slowest_requests(entries, 10)
                   IN  [i \in 1..Len(slowest) |-> SlowestItem(slowest[i])]

\* C7 as claimed: re-parsing the written export recovers total_requests equal
\* to the record count, a status distribution identical (keys and counts) to
\* get_requests_by_status, and a slowest-request list identical to
\* get_slowest_requests(10) in order, url, method, status and total time.
C7_Original ==
    Parseable(outfile) =>
        LET doc == JsonLoad(outfile) IN
        /\ doc.summary.total_requests = Len(entries)
        /\ doc.summary.status_distribution = get_requests_by_status(entries)
        /\ doc.slowest_requests = InMemorySlowest

\* C7 amended: re-parsing the written export recovers total_requests equal to
\* the record count, a slowest-request list identical to
\* get_slowest_requests(10), and a status distribution with the counts of
\* get_requests_by_status in the same order, whose keys are the statuses
\* written as decimal strings ("200" for 200).
C7_RoundTrip ==
    Parseable(outfile) =>
        LET doc == JsonLoad(outfile)
            parsed == doc.summary.status_distribution
            computed == get_requests_by_status(entries)
        IN  /\ doc.summary.total_requests = Len(entries)
            /\ Len(parsed) = Len(computed)
            /\ \A i \in 1..Len(parsed) :
                  /\ DOMAIN parsed[i].key = {"str"}
                  /\ StrToInt(parsed[i].key.str) = computed[i].key.int
                  /\ parsed[i].value = computed[i].value
            /\ doc.slowest_requests = InMemorySlowest

\* C7 witness: a complete export of three records with two statuses whose
\* slowest-request order is not the extraction order.
C7_Witness ==
    /\ Parseable(outfile)
    /\ pc = "ready"
    /\ Len(entries) = 3
    /\ Len(JsonLoad(outfile).summary.status_distribution) = 2
    /\ JsonLoad(outfile).summary.status_distribution[2].key = PyStr("404")
    /\ JsonLoad(outfile).slowest_requests # [i \in 1..Len(entries) |-> SlowestItem(entries[i])]

FatalInput ==
    \/ Len(argv) < 2
    \/ file.state \in {"missing", "unreadable", "invalid_json"}
    \/ file.state = "ok" /\ ~StructurallyValid(file.doc)

ExpectedMessage ==
    IF Len(argv) < 2 THEN "usage"
    ELSE IF file.state = "missing" THEN "error_not_found"
    ELSE IF file.state = "unreadable" THEN "traceback"
    ELSE IF file.state = "invalid_json" THEN "error_invalid_json"
    ELSE "error_invalid_format"

\* C8: a run of main() on a fatal input (no file argument, a missing or
\* unreadable file, invalid JSON, JSON without log or log.entries) goes on
\* until it ends with exit status 1 and its message, and in none of its
\* states has a line of the report been printed or the export file been
\* written, --export given or not.
C8_FatalInput ==
    FatalInput =>
        /\ \A i \in 1..Len(console) : ~IsReportLine(console[i])
        /\ outfile \in {NoFile, OldFile}
        /\ mpc = "done" \/ ENABLED MainNext
        /\ mpc = "done" =>
              /\ exitCode = 1
              /\ pc \in {"exited", "raised"}
              /\ Len(console) = 1
              /\ console[1].kind = ExpectedMessage

\* C8 witness: the end of a run with --export on a file that is not JSON.
C8_Witness ==
    /\ mpc = "done"
    /\ file.state = "invalid_json"
    /\ export_file(argv) = OutPath
    /\ exitCode = 1
    /\ console # <<>>

\* C9 as claimed: on a document that has log.entries, extract_timings never
\* fails on an entry: it returns with one record per entry.
C9_NeverFails ==
    (HasEntries /\ ret.op = "extract_timings") =>
        /\ pc # "raised"
        /\ Len(entries) = Len(DocEntries)

\* C10 as claimed: in every state the export destination holds what it held
\* before the export started or the complete export document.
C10_Atomic ==
    \/ outfile = outBefore
    \/ /\ Parseable(outfile)
       /\ outfile.chunks = JsonChunks(output_data(entries, HarPath))

====
